---------------------------- MODULE Spec2Model ----------------------------
(***************************************************************************)
(* Model of the destination-intelligence tool handlers:                    *)
(*   - recommendDestinations   (src/src/tools/get-destination-guide.ts)    *)
(*   - personalizeRecommendations (same file, openai service part)         *)
(*   - generatePersonalizedItinerary (src/unnamed/part_000)                *)
(*                                                                         *)
(* Conventions                                                             *)
(*   - A JavaScript string that the code upper/lower-cases or searches is  *)
(*     a sequence of one-character strings; a string that is only compared *)
(*     for equality (month names, budget tiers) is a TLA+ string.          *)
(*   - A nullable / optional value is a set with at most one element:     *)
(*     {} is null/undefined, {v} is the value v.                           *)
(*   - DECIMAL(2,1) ratings and match scores are fixed-point numbers in    *)
(*     tenths: 48 is 4.8, 596 is 59.6, 1000 is 100.                        *)
(***************************************************************************)
EXTENDS Integers, Sequences, FiniteSets, TLC

VARIABLES
  destinations,   \* table destinations (sequence of rows)
  preferences,    \* table user_travel_preferences (sequence of rows)
  recLog,         \* table travel_recommendations_log (sequence of rows)
  templates,      \* table itinerary_templates (sequence of rows)
  probe,          \* one scoring of one candidate (pure-function harness)
  rec,            \* the recommend-destinations invocation in progress
  calls,          \* the generate-personalized-itinerary invocations
  served,         \* per template: number of responses built from it
  events,         \* table seasonal_events (sequence of rows)
  inspiration,    \* table inspiration_content (sequence of rows)
  tool            \* the tool call the dispatch handler is serving

vars == <<destinations, preferences, recLog, templates, probe, rec, calls, served,
          events, inspiration, tool>>

-----------------------------------------------------------------------------
(* Optional values *)

None == {}

Some(v) == {v}

Val(x) == CHOOSE v \in x : TRUE

\* JavaScript  x || d  for a nullable x
OrElse(x, d) == IF x = None THEN d ELSE Val(x)

-----------------------------------------------------------------------------
(* Strings *)

LowerChars == <<"a","b","c","d","e","f","g","h","i","j","k","l","m",
                "n","o","p","q","r","s","t","u","v","w","x","y","z">>

UpperChars == <<"A","B","C","D","E","F","G","H","I","J","K","L","M",
                "N","O","P","Q","R","S","T","U","V","W","X","Y","Z">>

Chars == {LowerChars[i] : i \in 1..26} \cup {UpperChars[i] : i \in 1..26} \cup {" "}

toUpperChar == [c \in Chars |->
                 IF \E i \in 1..26 : LowerChars[i] = c
                 THEN UpperChars[CHOOSE i \in 1..26 : LowerChars[i] = c]
                 ELSE c]

toLowerChar == [c \in Chars |->
                 IF \E i \in 1..26 : UpperChars[i] = c
                 THEN LowerChars[CHOOSE i \in 1..26 : UpperChars[i] = c]
                 ELSE c]

\* String.prototype.toUpperCase
toUpperCase(s) == [i \in 1..Len(s) |-> toUpperChar[s[i]]]

\* String.prototype.toLowerCase, SQL LOWER()
toLowerCase(s) == [i \in 1..Len(s) |-> toLowerChar[s[i]]]

\* String.prototype.includes: t occurs in s as a contiguous substring
includes(s, t) ==
  \E k \in 0..(Len(s) - Len(t)) : \A i \in 1..Len(t) : s[k + i] = t[i]

\* Array.prototype.includes
arrayIncludes(arr, x) == \E i \in 1..Len(arr) : arr[i] = x

\* Array.prototype.slice(0, n)
slice0(arr, n) == SubSeq(arr, 1, IF n < Len(arr) THEN (IF n < 0 THEN 0 ELSE n) ELSE Len(arr))

Min(a, b) == IF a < b THEN a ELSE b

-----------------------------------------------------------------------------
(* Words used by the seed data and by the requests *)

BEACH     == <<"B","E","A","C","H">>
CULTURAL  == <<"C","U","L","T","U","R","A","L">>
FAMILY    == <<"F","A","M","I","L","Y">>
LUXURY    == <<"L","U","X","U","R","Y">>
SHOPPING  == <<"S","H","O","P","P","I","N","G">>
ADVENTURE == <<"A","D","V","E","N","T","U","R","E">>
ROMANTIC  == <<"R","O","M","A","N","T","I","C">>

beach       == <<"b","e","a","c","h">>
cultural    == <<"c","u","l","t","u","r","a","l">>
beachLife   == <<"b","e","a","c","h"," ","l","i","f","e">>
familyTrips == <<"F","a","m","i","l","y"," ","t","r","i","p","s">>
HISTORY     == <<"H","I","S","T","O","R","Y">>

Barcelona  == <<"B","a","r","c","e","l","o","n","a">>
Tokyo      == <<"T","o","k","y","o">>
Dubai      == <<"D","u","b","a","i">>
PanamaCity == <<"P","a","n","a","m","a"," ","C","i","t","y">>
Cartagena  == <<"C","a","r","t","a","g","e","n","a">>
Lima       == <<"L","i","m","a">>
barcelona  == <<"b","a","r","c","e","l","o","n","a">>
Colon      == <<"C","o","l","o","n">>
David      == <<"D","a","v","i","d">>

COUPLES  == <<"C","O","U","P","L","E","S">>
FAMILIES == <<"F","A","M","I","L","I","E","S">>
SOLO     == <<"S","O","L","O">>
GROUPS   == <<"G","R","O","U","P","S">>
BUSINESS == <<"B","U","S","I","N","E","S","S">>
GENERAL  == <<"G","E","N","E","R","A","L">>
couples  == <<"c","o","u","p","l","e","s">>


-----------------------------------------------------------------------------
(* Scoring: the body of the map callback of recommendDestinations.         *)
(* dest is a row of the candidate query (a destinations row plus           *)
(* popularity_score), userPreferences an optional preferences row,         *)
(* context the request's context object.                                   *)

\* destTypes.filter(type => userInterests.some(i => i.toUpperCase().includes(type))).length
interestMatch(dest, up) ==
  LET destTypes     == OrElse(dest.destination_type, <<>>)
      userInterests == OrElse(up.interests, <<>>)
  IN Len(SelectSeq(destTypes, LAMBDA type :
           \E i \in 1..Len(userInterests) : includes(toUpperCase(userInterests[i]), type)))

\* destTypes.filter(type => context.interests.some(i => i.toUpperCase() === type)).length
contextMatch(dest, interests) ==
  LET destTypes == OrElse(dest.destination_type, <<>>)
  IN Len(SelectSeq(destTypes, LAMBDA type :
           \E i \in 1..Len(interests) : toUpperCase(interests[i]) = type))

profileBoostElseIf(matchScore, dest, userPreferences) ==
  IF userPreferences = None THEN matchScore
  ELSE LET up == Val(userPreferences)
           s1 == matchScore + interestMatch(dest, up) * 100
       IN IF dest.budget_level = up.budget_preference THEN s1 + 150
          ELSE IF up.bucket_list_destinations # None
                  /\ arrayIncludes(Val(up.bucket_list_destinations), dest.city)
               THEN s1 + 250 ELSE s1

\* if (userPreferences) { interests +10 each; budget +15; bucket list +25 }
profileBoost(matchScore, dest, userPreferences) ==
  IF userPreferences = None THEN matchScore
  ELSE LET up == Val(userPreferences)
           s1 == matchScore + interestMatch(dest, up) * 100
           s2 == IF dest.budget_level = up.budget_preference THEN s1 + 150 ELSE s1
           s3 == IF up.bucket_list_destinations # None
                    /\ arrayIncludes(Val(up.bucket_list_destinations), dest.city)
                 THEN s2 + 250 ELSE s2
       IN s3

contextBoostReplaces(matchScore, dest, context) ==
  IF context.interests = None THEN matchScore
  ELSE 500 + contextMatch(dest, Val(context.interests)) * 150

\* if (context.interests) matchScore += contextMatch * 15
contextBoost(matchScore, dest, context) ==
  IF context.interests = None THEN matchScore
  ELSE matchScore + contextMatch(dest, Val(context.interests)) * 150

\* if (context.travel_month && bestMonths.includes(travel_month)) matchScore += 20
seasonalBoost(matchScore, dest, context) ==
  IF context.travel_month = None THEN matchScore
  ELSE IF arrayIncludes(OrElse(dest.best_months, <<>>), Val(context.travel_month))
       THEN matchScore + 200 ELSE matchScore

popularityBoostUncapped(matchScore, dest) ==
  matchScore + dest.popularity_score * 2 * 10

\* matchScore += Math.min(dest.popularity_score * 2, 10)
popularityBoost(matchScore, dest) ==
  matchScore + Min(dest.popularity_score * 2, 10) * 10

\* if (dest.tourist_infrastructure_rating) matchScore += rating * 2
infrastructureBoost(matchScore, dest) ==
  IF dest.tourist_infrastructure_rating = None THEN matchScore
  ELSE matchScore + Val(dest.tourist_infrastructure_rating) * 2

\* the value of matchScore just before the return of the map callback
rawMatchScore(dest, userPreferences, context) ==
  infrastructureBoost(
    popularityBoost(
      seasonalBoost(
        contextBoost(
          profileBoost(500, dest, userPreferences),
          dest, context),
        dest, context),
      dest),
    dest)

\* match_score: Math.min(matchScore, 100)
matchScoreOf(dest, userPreferences, context) ==
  Min(rawMatchScore(dest, userPreferences, context), 1000)


-----------------------------------------------------------------------------
(* Repository contents: the rows of database/seed.sql *)

Destination(id, city, types, months, safety, infra, budget, cost, active) ==
  [destination_id |-> id, city |-> city, destination_type |-> types,
   best_months |-> months, safety_rating |-> safety,
   tourist_infrastructure_rating |-> infra, budget_level |-> budget,
   average_daily_cost_usd |-> cost, is_active |-> active]

SeedDestinations ==
  << Destination(1, Barcelona, Some(<<CULTURAL, BEACH, FAMILY>>),
                 Some(<<"April", "May", "June", "September", "October">>),
                 Some(42), Some(48), Some("MODERATE"), Some(120), TRUE),
     Destination(2, Tokyo, Some(<<CULTURAL, LUXURY, FAMILY>>),
                 Some(<<"March", "April", "May", "October", "November">>),
                 Some(49), Some(50), Some("MODERATE"), Some(150), TRUE),
     Destination(3, Dubai, Some(<<LUXURY, SHOPPING, BEACH, FAMILY>>),
                 Some(<<"November", "December", "January", "February", "March">>),
                 Some(46), Some(50), Some("LUXURY"), Some(200), TRUE),
     Destination(4, PanamaCity, Some(<<CULTURAL, BEACH, ADVENTURE>>),
                 Some(<<"December", "January", "February", "March", "April">>),
                 Some(40), Some(43), Some("MODERATE"), Some(100), TRUE),
     Destination(5, Cartagena, Some(<<CULTURAL, BEACH, ROMANTIC>>),
                 Some(<<"December", "January", "February", "March">>),
                 Some(38), Some(40), Some("MODERATE"), Some(80), TRUE) >>

\* user_travel_preferences row (only the columns the handlers read)
Preference(pid, interests, budget, bucket) ==
  [passenger_id |-> pid, interests |-> interests,
   budget_preference |-> budget, bucket_list_destinations |-> bucket]

\* the request's context object; an absent key is None
Context(interests, month, range, previous) ==
  [interests |-> interests, travel_month |-> month,
   budget_range |-> range, previous_destinations |-> previous]

-----------------------------------------------------------------------------
(* Idle values of the parts of the state a specification does not use *)

ProbeOff == [phase |-> "off"]

RecIdle == [pc |-> "idle"]

ToolIdle == [pc |-> "idle"]

-----------------------------------------------------------------------------
(* SpecScore: one scoring of one candidate, inputs drawn from bounded sets *)

MaxPopularity == 6

ProbeCandidates ==
  [city : {Barcelona, Tokyo},
   destination_type : {None, Some(<<BEACH>>), Some(<<CULTURAL, BEACH, FAMILY>>)},
   best_months : {None, Some(<<"April", "May">>)},
   budget_level : {None, Some("MODERATE")},
   popularity_score : 0..MaxPopularity,
   tourist_infrastructure_rating : {None, Some(0), Some(48), Some(50)}]

ProbeProfiles ==
  {None} \cup
  { Some(Preference("p1", i, b, l)) :
      i \in {None, Some(<<beachLife, HISTORY>>), Some(<<familyTrips, cultural>>)},
      b \in {None, Some("MODERATE")},
      l \in {None, Some(<<Tokyo, Barcelona>>)} }

ProbeContexts ==
  { Context(i, m, None, None) :
      i \in {None, Some(<<>>), Some(<<beach>>), Some(<<BEACH, cultural>>)},
      m \in {None, Some("April"), Some("July")} }

InitScore ==
  /\ destinations = SeedDestinations
  /\ preferences = <<>>
  /\ recLog = <<>>
  /\ templates = <<>>
  /\ rec = RecIdle
  /\ calls = <<>>
  /\ served = <<>>
  /\ events = <<>>
  /\ inspiration = <<>>
  /\ tool = ToolIdle
  /\ \E d \in ProbeCandidates, up \in ProbeProfiles, c \in ProbeContexts :
       probe = [phase |-> "input", dest |-> d, userPreferences |-> up,
                context |-> c, match_score |-> None]

\* candidateDestinations = rows.map(dest => ({...dest, match_score}))
ScoreCandidate ==
  /\ probe.phase = "input"
  /\ probe' = [probe EXCEPT !.phase = "scored",
                 !.match_score = Some(matchScoreOf(probe.dest, probe.userPreferences, probe.context))]
  /\ UNCHANGED <<destinations, preferences, recLog, templates, rec, calls, served, events, inspiration, tool>>

NextScore == ScoreCandidate

SpecScore == InitScore /\ [][NextScore]_vars


-----------------------------------------------------------------------------
(* Properties of the scoring function (checked under SpecScore) *)

Bool2Int(b) == IF b THEN 1 ELSE 0

\* number of category tags of dest for which some interest satisfies hit
TagsMatched(dest, interests, hit(_, _)) ==
  LET tags == OrElse(dest.destination_type, <<>>)
  IN Cardinality({k \in DOMAIN tags : \E i \in DOMAIN interests : hit(interests[i], tags[k])})

ProfileTags(dest, up) ==
  TagsMatched(dest, OrElse(up.interests, <<>>),
              LAMBDA interest, tag : includes(toUpperCase(interest), tag))

ContextTags(dest, context) ==
  TagsMatched(dest, OrElse(context.interests, <<>>),
              LAMBDA interest, tag : toUpperCase(interest) = tag)

InBucketList(dest, up) ==
  \E k \in DOMAIN OrElse(up.bucket_list_destinations, <<>>) :
     Val(up.bucket_list_destinations)[k] = dest.city

ExpectedScore(dest, userPreferences, context) ==
  LET profileTerms ==
        IF userPreferences = None THEN 0
        ELSE 100 * ProfileTags(dest, Val(userPreferences))
             + 150 * Bool2Int(dest.budget_level = Val(userPreferences).budget_preference)
             + 250 * Bool2Int(InBucketList(dest, Val(userPreferences)))
      monthTerm ==
        200 * Bool2Int(context.travel_month # None
                       /\ \E k \in DOMAIN OrElse(dest.best_months, <<>>) :
                            Val(dest.best_months)[k] = Val(context.travel_month))
      popularityTerm == 10 * Min(2 * dest.popularity_score, 10)
      ratingTerm == 2 * OrElse(dest.tourist_infrastructure_rating, 0)
  IN Min(1000, 500 + profileTerms + 150 * ContextTags(dest, context)
                   + monthTerm + popularityTerm + ratingTerm)

\* C1: the match score of every scored candidate equals
\* min(100, 50 + 10p + 15[budget tier = budget preference] + 25[city in bucket list]
\*          + 15c + 20[month in best months] + min(2*popularity, 10) + 2*rating),
\* the profile terms being 0 without a profile and the two interest terms adding up.
C1_ScoreFormula ==
  probe.phase = "scored" =>
    Val(probe.match_score) = ExpectedScore(probe.dest, probe.userPreferences, probe.context)

\* a scored candidate below the cap with a profile tag match and a context tag match
C1_Witness ==
  /\ probe.phase = "scored"
  /\ probe.userPreferences # None
  /\ ProfileTags(probe.dest, Val(probe.userPreferences)) >= 1
  /\ ContextTags(probe.dest, probe.context) >= 1
  /\ probe.dest.popularity_score > 5
  /\ Val(probe.match_score) < 1000

\* C3: the match score of a scored candidate is an integer (a multiple of 10 tenths)
C3_ScoreIsInteger ==
  probe.phase = "scored" => Val(probe.match_score) % 10 = 0

ExtraInterests == {beach, CULTURAL, familyTrips, HISTORY}

withProfileInterest(up, x) ==
  [up EXCEPT !.interests = Some(Append(OrElse(up.interests, <<>>), x))]

withContextInterest(context, x) ==
  [context EXCEPT !.interests = Some(Append(OrElse(context.interests, <<>>), x))]

\* C4: with the candidate and all other inputs fixed, one more matching interest tag
\* (through the profile's interests or through the context interests) never lowers
\* the match score.
C4_MoreTagsNeverLower ==
  probe.phase = "scored" =>
    \A x \in ExtraInterests :
      /\ (/\ probe.userPreferences # None
          /\ ProfileTags(probe.dest, withProfileInterest(Val(probe.userPreferences), x))
               = ProfileTags(probe.dest, Val(probe.userPreferences)) + 1)
         => matchScoreOf(probe.dest,
                         Some(withProfileInterest(Val(probe.userPreferences), x)),
                         probe.context) >= Val(probe.match_score)
      /\ (ContextTags(probe.dest, withContextInterest(probe.context, x))
               = ContextTags(probe.dest, probe.context) + 1)
         => matchScoreOf(probe.dest, probe.userPreferences,
                         withContextInterest(probe.context, x)) >= Val(probe.match_score)

\* a scored candidate with profile boosts for which one more context interest
\* matches one more tag and raises the score
C4_Witness ==
  /\ probe.phase = "scored"
  /\ probe.userPreferences # None
  /\ Val(probe.match_score) > 700
  /\ probe.context.interests = None
  /\ \E x \in ExtraInterests :
       /\ ContextTags(probe.dest, withContextInterest(probe.context, x)) = 1
       /\ matchScoreOf(probe.dest, probe.userPreferences,
                       withContextInterest(probe.context, x)) > Val(probe.match_score)

\* the otherwise identical profile whose bucket list does not hold the city
withoutBucketCity(up, city) ==
  [up EXCEPT !.bucket_list_destinations =
     Some(SelectSeq(OrElse(up.bucket_list_destinations, <<>>), LAMBDA c : c # city))]

ProbeInBucketList ==
  /\ probe.phase = "scored"
  /\ probe.userPreferences # None
  /\ InBucketList(probe.dest, Val(probe.userPreferences))

\* C5 as stated: in the bucket list, the score is exactly 25 more than the score of
\* the otherwise identical case that is not in the bucket list
C5_ExactlyPlus25 ==
  ProbeInBucketList =>
    Val(probe.match_score) =
      matchScoreOf(probe.dest,
                   Some(withoutBucketCity(Val(probe.userPreferences), probe.dest.city)),
                   probe.context) + 250

\* C5 amended: in the bucket list, the score is min(100, 25 + the uncapped score of the
\* otherwise identical case that is not in the bucket list)
C5_Plus25BeforeCap ==
  ProbeInBucketList =>
    Val(probe.match_score) =
      Min(1000,
          rawMatchScore(probe.dest,
                        Some(withoutBucketCity(Val(probe.userPreferences), probe.dest.city)),
                        probe.context) + 250)

\* a bucket-list candidate whose budget tier also matches, scored below the cap
C5_Witness ==
  /\ ProbeInBucketList
  /\ probe.dest.budget_level = Val(probe.userPreferences).budget_preference
  /\ Val(probe.match_score) < 1000
  /\ Val(probe.match_score) =
       matchScoreOf(probe.dest,
                    Some(withoutBucketCity(Val(probe.userPreferences), probe.dest.city)),
                    probe.context) + 250


-----------------------------------------------------------------------------
(* recommendDestinations: the candidate query *)

\* a recommendations_shown element: a JSON string or a JSON object {destination, score}
ShownText(city) == [kind |-> "string", text |-> city]

ShownObject(city, score) == [kind |-> "object", destination |-> city, score |-> score]

\* jsonb_array_elements_text: a string element yields its text, an object element
\* the text of the object (which starts with a brace)
jsonbElementText(e) ==
  IF e.kind = "string" THEN e.text
  ELSE <<"{">> \o e.destination \o <<"}">>

\* COUNT(DISTINCT trl.log_id) over the rows joined ON d.city = ANY(elements_text(shown))
popularityScore(city, log) ==
  Cardinality({k \in DOMAIN log :
                 \E j \in DOMAIN log[k].recommendations_shown :
                    jsonbElementText(log[k].recommendations_shown[j]) = city})

\* d.destination_type && $n  (array overlap; NULL && x is NULL, which WHERE rejects)
arrayOverlap(types, interests) ==
  /\ types # None
  /\ \E a \in DOMAIN Val(types), b \in DOMAIN interests : Val(types)[a] = interests[b]

\* the WHERE clause built from the context
passesFilters(d, context) ==
  /\ d.is_active
  /\ context.budget_range # None =>
       /\ d.average_daily_cost_usd # None
       /\ Val(context.budget_range).min <= Val(d.average_daily_cost_usd)
       /\ Val(d.average_daily_cost_usd) <= Val(context.budget_range).max
  /\ (context.interests # None /\ Len(Val(context.interests)) > 0) =>
       arrayOverlap(d.destination_type, Val(context.interests))
  /\ (context.previous_destinations # None /\ Len(Val(context.previous_destinations)) > 0) =>
       ~ arrayIncludes(Val(context.previous_destinations), d.city)

Reverse(seq) == [i \in 1..Len(seq) |-> seq[Len(seq) + 1 - i]]

\* a stable sort by descending key
stableSortDesc(seq, key(_)) ==
  LET n == Len(seq)
      rank(i) == 1 + Cardinality({j \in 1..n :
                        \/ key(seq[j]) > key(seq[i])
                        \/ key(seq[j]) = key(seq[i]) /\ j < i})
  IN [r \in 1..n |-> seq[CHOOSE i \in 1..n : rank(i) = r]]

orderKeyPopularityOnly(row) == row.popularity_score * 100

\* ORDER BY popularity_score DESC, tourist_infrastructure_rating DESC (NULL sorts first)
orderKey(row) ==
  row.popularity_score * 100 + OrElse(row.tourist_infrastructure_rating, 99)

\* the rows of the candidate query; rows that ORDER BY leaves tied come in table
\* order or in the reverse of it (tieOrder), the database decides
candidateRows(dests, log, context, limit, tieOrder) ==
  LET hits == SelectSeq(dests, LAMBDA d : passesFilters(d, context))
      rows == [i \in 1..Len(hits) |->
                 [popularity_score |-> popularityScore(hits[i].city, log)] @@ hits[i]]
      base == IF tieOrder = "table" THEN rows ELSE Reverse(rows)
  IN slice0(stableSortDesc(base, orderKey), limit)

-----------------------------------------------------------------------------
(* recommendDestinations: scoring, ranking, formatting *)

\* rows.map(dest => ({...dest, match_score: Math.min(matchScore, 100)}))
scoreRows(rows, userPreferences, context) ==
  [i \in 1..Len(rows) |->
     [match_score |-> Some(matchScoreOf(rows[i], userPreferences, context))] @@ rows[i]]

sortOmitted(cands) == cands

\* candidateDestinations.sort((a, b) => b.match_score - a.match_score)
sortByMatchScore(cands) ==
  stableSortDesc(cands, LAMBDA c : Val(c.match_score))

\* the matchReasons array built for one entry of personalizedDestinations
matchReasons(dest, context) ==
  LET weather ==
        IF context.travel_month # None
           /\ arrayIncludes(OrElse(dest.best_months, <<>>), Val(context.travel_month))
        THEN <<"Perfect weather">> ELSE <<>>
      matching ==
        IF context.interests = None THEN <<>>
        ELSE SelectSeq(OrElse(dest.destination_type, <<>>), LAMBDA type :
               arrayIncludes(Val(context.interests), toLowerCase(type)))
      interest == IF Len(matching) > 0 THEN <<"Matches your interest">> ELSE <<>>
      safety ==
        IF dest.safety_rating # None /\ Val(dest.safety_rating) >= 40
        THEN <<"High safety rating">> ELSE <<>>
      infra ==
        IF dest.tourist_infrastructure_rating # None
           /\ Val(dest.tourist_infrastructure_rating) >= 45
        THEN <<"Excellent tourist infrastructure">> ELSE <<>>
      specific == weather \o interest \o safety \o infra
  IN IF Len(specific) = 0
     THEN <<"Popular destination", "Great for first-time visitors">>
     ELSE specific

\* personalizedDestinations.map((dest, index) => ({rank, destination, match_score,
\* match_reasons: matchReasons.slice(0, 3), ...}))
formatRecommendations(personalized, context) ==
  [i \in 1..Len(personalized) |->
     [rank |-> i,
      destination |-> personalized[i].city,
      match_score |-> personalized[i].match_score,
      match_reasons |-> slice0(matchReasons(personalized[i], context), 3)]]

\* JSON.stringify(recommendations.map(r => ({destination, score})))
shownOf(recommendations) ==
  [i \in 1..Len(recommendations) |->
     ShownObject(recommendations[i].destination, recommendations[i].match_score)]


-----------------------------------------------------------------------------
(* personalizeRecommendations (openai service) *)

\* what the enrichment capability does during one call
EnrichmentOutcomes ==
  {"unconfigured",  \* initOpenAI() returns null
   "error",         \* the API call or JSON.parse throws
   "no_content",    \* completion without message content
   "no_field",      \* parsed JSON without a recommendations field
   "reordered",     \* recommendations: the candidates in another order
   "rescored",      \* recommendations: the candidates with the model's own scores
   "longer",        \* recommendations: more entries than candidates
   "not_array"}     \* recommendations: a JSON object, not an array

\* the return value of personalizeRecommendations; isArray tells whether it has map()
personalizeRecommendations(outcome, candidateDestinations) ==
  CASE outcome = "reordered" ->
         [isArray |-> TRUE, list |-> Reverse(candidateDestinations)]
    [] outcome = "rescored" ->
         [isArray |-> TRUE,
          list |-> [i \in 1..Len(candidateDestinations) |->
                      [candidateDestinations[i] EXCEPT !.match_score = Some(1500)]]]
    [] outcome = "longer" ->
         [isArray |-> TRUE, list |-> candidateDestinations \o candidateDestinations]
    [] outcome = "not_array" ->
         [isArray |-> FALSE, list |-> <<>>]
    [] OTHER ->
         [isArray |-> TRUE, list |-> candidateDestinations]

-----------------------------------------------------------------------------
(* recommendDestinations: the handler, one action per awaited call *)

RecommendInputs ==
  [passenger_id : {None, Some("p1"), Some("p2")},
   context : { Context(i, m, b, p) :
                 i \in {None, Some(<<>>), Some(<<beach>>), Some(<<BEACH>>),
                        Some(<<beach, BEACH>>)},
                 m \in {None, Some("March"), Some("July")},
                 b \in {None, Some([min |-> 80, max |-> 120])},
                 p \in {None, Some(<<Tokyo>>)} },
   recommendation_count : {None, Some(1), Some(2), Some(11)}]

\* SELECT * FROM user_travel_preferences WHERE passenger_id = $1; rows[0] if any
lookupPreferences(prefs, passenger_id) ==
  IF passenger_id = None THEN None
  ELSE LET hits == SelectSeq(prefs, LAMBDA r : r.passenger_id = Val(passenger_id))
       IN IF Len(hits) > 0 THEN Some(hits[1]) ELSE None

\* from "Format recommendations" to the point where the log insert is awaited or
\* the response is returned
formatAndContinue(r, outcome, personalized) ==
  IF ~ personalized.isArray
  THEN [r EXCEPT !.pc = "done", !.status = "error", !.enrichment = outcome]
  ELSE [r EXCEPT
          !.pc = IF r.input.passenger_id # None THEN "log" ELSE "done",
          !.status = IF r.input.passenger_id # None THEN "pending" ELSE "ok",
          !.enrichment = outcome,
          !.personalizedDestinations = personalized.list,
          !.recommendations = formatRecommendations(personalized.list, r.input.context)]

\* the handler up to its first call of the enrichment capability (or, without one,
\* up to the log insert or the return)
Recommend(input, tieOrder) ==
  /\ rec.pc = "idle"
  /\ LET context == input.context
         recommendation_count == OrElse(input.recommendation_count, 5)
         userPreferences == lookupPreferences(preferences, input.passenger_id)
         rows == candidateRows(destinations, recLog, context,
                               recommendation_count * 2, tieOrder)
         candidateDestinations == sortByMatchScore(scoreRows(rows, userPreferences, context))
         topDestinations == slice0(candidateDestinations, recommendation_count)
         started == [pc |-> "personalize", input |-> input, log0 |-> recLog,
                     userPreferences |-> userPreferences, rows |-> rows,
                     candidateDestinations |-> candidateDestinations,
                     topDestinations |-> topDestinations,
                     personalizedDestinations |-> <<>>, recommendations |-> <<>>,
                     enrichment |-> "not_called", status |-> "pending",
                     logWrite |-> "none"]
     IN rec' =
          IF Len(rows) = 0
          THEN [started EXCEPT !.pc = "done", !.status = "ok",
                               !.candidateDestinations = <<>>, !.topDestinations = <<>>]
          ELSE IF userPreferences # None \/ context.interests # None
               THEN started
               ELSE formatAndContinue(started, "not_called",
                                      [isArray |-> TRUE, list |-> topDestinations])
  /\ UNCHANGED <<destinations, preferences, recLog, templates, probe, calls, served, events, inspiration, tool>>

\* personalizeRecommendations returns; the handler formats the recommendations
PersonalizeReturns(outcome) ==
  /\ rec.pc = "personalize"
  /\ rec' = formatAndContinue(rec, outcome,
                              personalizeRecommendations(outcome, rec.topDestinations))
  /\ UNCHANGED <<destinations, preferences, recLog, templates, probe, calls, served, events, inspiration, tool>>

\* INSERT INTO travel_recommendations_log, in a try/catch; then the return
LogRecommendation(ok) ==
  /\ rec.pc = "log"
  /\ recLog' = IF ok
               THEN Append(recLog, [passenger_id |-> Val(rec.input.passenger_id),
                                    recommendations_shown |-> shownOf(rec.recommendations)])
               ELSE recLog
  /\ rec' = [rec EXCEPT !.pc = "done", !.status = "ok",
                        !.logWrite = IF ok THEN "ok" ELSE "failed"]
  /\ UNCHANGED <<destinations, preferences, templates, probe, calls, served, events, inspiration, tool>>

-----------------------------------------------------------------------------
(* Spec: one recommend-destinations invocation on a repository.             *)
(* The handler keeps no state between invocations other than the           *)
(* repository, so Init ranges over repository contents (including log rows *)
(* of earlier invocations) and a behaviour follows one invocation.         *)

\* seed rows plus a deactivated destination
DestinationsTable ==
  SeedDestinations \o
  << Destination(6, Lima, Some(<<CULTURAL, BEACH>>), Some(<<"March", "July">>),
                 Some(45), Some(50), Some("BUDGET"), Some(90), FALSE) >>

PreferenceTables ==
  { << Preference("p1", Some(<<HISTORY, beachLife>>), Some("MODERATE"), None) >>,
    << Preference("p1", Some(<<familyTrips, cultural>>), Some("LUXURY"),
                  Some(<<Tokyo, Cartagena>>)) >> }

\* earlier log rows: none; one written with city names; one written by this handler
LogTables ==
  { <<>>,
    << [passenger_id |-> "p0",
        recommendations_shown |-> <<ShownText(Cartagena), ShownText(Tokyo)>>] >>,
    << [passenger_id |-> "p0",
        recommendations_shown |-> <<ShownObject(Cartagena, Some(580))>>] >> }

Init ==
  /\ destinations = DestinationsTable
  /\ preferences \in PreferenceTables
  /\ recLog \in LogTables
  /\ templates = <<>>
  /\ probe = ProbeOff
  /\ rec = RecIdle
  /\ calls = <<>>
  /\ served = <<>>
  /\ events = <<>>
  /\ inspiration = <<>>
  /\ tool = ToolIdle

Next ==
  \/ \E input \in RecommendInputs, tieOrder \in {"table", "reverse"} :
       Recommend(input, tieOrder)
  \/ \E outcome \in EnrichmentOutcomes : PersonalizeReturns(outcome)
  \/ \E ok \in BOOLEAN : LogRecommendation(ok)

Spec == Init /\ [][Next]_vars


-----------------------------------------------------------------------------
(* Properties of recommend-destinations (checked under Spec) *)

\* the invocation has returned a success payload
Returned == rec.pc = "done" /\ rec.status = "ok"

requestedCount == OrElse(rec.input.recommendation_count, 5)

\* C2: every returned match_score lies in [0,100], whether the enrichment capability
\* is unconfigured, succeeds or fails
C2_ScoresInRange ==
  Returned =>
    \A i \in DOMAIN rec.recommendations :
      /\ rec.recommendations[i].match_score # None
      /\ Val(rec.recommendations[i].match_score) >= 0
      /\ Val(rec.recommendations[i].match_score) <= 1000

\* C6: at most recommendation_count entries (5 by default) and never more than 10 are
\* returned, whatever count is requested and whatever the enrichment capability returns
C6_AtMostCount ==
  Returned =>
    /\ Len(rec.recommendations) <= requestedCount
    /\ Len(rec.recommendations) <= 10

GenericReasons == {"Popular destination", "Great for first-time visitors"}

reasonSet(r) == {r.match_reasons[k] : k \in DOMAIN r.match_reasons}

\* one of the four specific conditions holds for dest under the request's context
SpecificCondition(dest, context) ==
  \/ /\ context.travel_month # None
     /\ \E k \in DOMAIN OrElse(dest.best_months, <<>>) :
          Val(dest.best_months)[k] = Val(context.travel_month)
  \/ ContextTags(dest, context) > 0
  \/ dest.safety_rating # None /\ Val(dest.safety_rating) >= 40
  \/ dest.tourist_infrastructure_rating # None /\ Val(dest.tourist_infrastructure_rating) >= 45

\* C8: every recommendation carries 1 to 3 match reasons, and the two generic reasons
\* are given exactly when none of the four specific conditions (month in best months,
\* context-interest match, safety >= 4.0, infrastructure >= 4.5) holds
C8_ReasonsMatchConditions ==
  Returned =>
    \A i \in DOMAIN rec.recommendations :
      /\ Len(rec.recommendations[i].match_reasons) \in 1..3
      /\ (GenericReasons \subseteq reasonSet(rec.recommendations[i]))
           <=> ~ SpecificCondition(rec.personalizedDestinations[i], rec.input.context)
      /\ (GenericReasons \cap reasonSet(rec.recommendations[i]) # {})
           <=> ~ SpecificCondition(rec.personalizedDestinations[i], rec.input.context)

\* C9: an invocation with a passenger_id appends exactly one log entry holding the
\* shown destinations and scores (when the write succeeds), whatever the candidate
\* set is; an invocation without passenger_id appends none
C9_OneLogEntryPerIdentifiedCall ==
  Returned =>
    /\ (rec.input.passenger_id # None /\ rec.logWrite # "failed") =>
         recLog = Append(rec.log0,
                         [passenger_id |-> Val(rec.input.passenger_id),
                          recommendations_shown |-> shownOf(rec.recommendations)])
    /\ rec.input.passenger_id = None => recLog = rec.log0


-----------------------------------------------------------------------------
(* generatePersonalizedItinerary *)

\* one entry of a daily_schedule: its day number and the keys it carries
Day(n, keys) == [day |-> n, keys |-> keys]

TemplateDayKeys == {"theme", "morning", "afternoon", "evening"}

FullDayKeys == {"theme", "morning", "afternoon", "evening", "meals",
                "estimated_cost", "walking_distance_km"}

Template(id, dest, days, style, audience, schedule, usage, rating, featured) ==
  [template_id |-> id, destination_id |-> dest, duration_days |-> days,
   trip_style |-> style, target_audience |-> audience, daily_schedule |-> schedule,
   usage_count |-> usage, average_rating |-> rating, is_featured |-> featured]

\* the itinerary_templates row of database/seed.sql
SeedTemplate ==
  Template(1, 1, 3, "BALANCED", COUPLES,
           [n \in 1..3 |-> Day(n, TemplateDayKeys)], 0, None, TRUE)

\* CHECK (target_audience IN (...)) of itinerary_templates
TargetAudiences == {COUPLES, FAMILIES, SOLO, GROUPS, BUSINESS}

\* SELECT * FROM destinations WHERE LOWER(city) = LOWER($1) AND is_active = true LIMIT 1
findDestination(dests, name) ==
  LET hits == SelectSeq(dests, LAMBDA d :
                /\ toLowerCase(d.city) = toLowerCase(name)
                /\ d.is_active)
  IN IF Len(hits) > 0 THEN Some(hits[1]) ELSE None

\* ORDER BY usage_count DESC, average_rating DESC NULLS LAST
templateOrderKey(t) == t.usage_count * 100 + OrElse(t.average_rating, -1) + 1

\* the template lookup: WHERE destination_id, duration_days, [LOWER(target_audience)],
\* is_featured; ORDER BY ...; LIMIT 1.  Rows the ORDER BY leaves tied come in table
\* order or in its reverse.
findTemplate(tmpls, dest, duration_days, traveler_type, tieOrder) ==
  LET hits == SelectSeq(tmpls, LAMBDA t :
                /\ t.destination_id = dest.destination_id
                /\ t.duration_days = duration_days
                /\ traveler_type # None =>
                     toLowerCase(t.target_audience) = toLowerCase(Val(traveler_type))
                /\ t.is_featured)
      base == IF tieOrder = "table" THEN hits ELSE Reverse(hits)
      rows == slice0(stableSortDesc(base, templateOrderKey), 1)
  IN IF Len(rows) > 0 THEN Some(rows[1]) ELSE None

usageCountFromSnapshot(tmpls, template) ==
  [k \in DOMAIN tmpls |->
     IF tmpls[k].template_id = template.template_id
     THEN [tmpls[k] EXCEPT !.usage_count = template.usage_count + 1]
     ELSE tmpls[k]]

incrementUsageCountTwice(tmpls, template) ==
  [k \in DOMAIN tmpls |->
     IF tmpls[k].template_id = template.template_id
     THEN [tmpls[k] EXCEPT !.usage_count = @ + 2]
     ELSE tmpls[k]]

\* UPDATE itinerary_templates SET usage_count = usage_count + 1 WHERE template_id = $1
incrementUsageCount(tmpls, template) ==
  [k \in DOMAIN tmpls |->
     IF tmpls[k].template_id = template.template_id
     THEN [tmpls[k] EXCEPT !.usage_count = @ + 1]
     ELSE tmpls[k]]

\* what generateItinerary (openai service) does during one call
ItineraryOutcomes ==
  {"unconfigured",  \* initOpenAI() returns null: throws 'OpenAI not configured'
   "error",         \* the API call or JSON.parse throws
   "complete",      \* JSON with every field of the prompt's structure
   "incomplete"}    \* valid JSON lacking daily_schedule

\* the top-level keys of ItineraryResponse
ResponseFields == {"itinerary", "daily_schedule", "alternative_options",
                   "packing_list", "budget_breakdown"}

\* the response built from a template row; daily_schedule is the row's JSONB value
\* as stored (the column is NOT NULL, so the || [] never applies)
templateResponse(dest, duration_days, template) ==
  [tier |-> "template", fields |-> ResponseFields,
   destination |-> dest.city, total_days |-> Some(duration_days),
   travel_style |-> template.trip_style,
   daily_schedule |-> Some(template.daily_schedule)]

\* the response built from the generated itinerary: {...aiItinerary,
\* itinerary: {...aiItinerary.itinerary, destination: dest.city}, ...}
generatedResponse(dest, duration_days, outcome) ==
  [tier |-> "generated",
   fields |-> IF outcome = "complete" THEN ResponseFields
              ELSE ResponseFields \ {"daily_schedule"},
   destination |-> dest.city,
   total_days |-> IF outcome = "complete" THEN Some(duration_days) ELSE None,
   travel_style |-> "BALANCED",
   daily_schedule |-> IF outcome = "complete"
                      THEN Some([n \in 1..duration_days |-> Day(n, FullDayKeys)])
                      ELSE None]

\* the fallback built in the catch block
fallbackResponse(dest, duration_days) ==
  [tier |-> "fallback", fields |-> ResponseFields,
   destination |-> dest.city, total_days |-> Some(duration_days),
   travel_style |-> "BALANCED",
   daily_schedule |-> Some([n \in 1..duration_days |-> Day(n, FullDayKeys)])]

\* the row of INSERT INTO itinerary_templates (... usage_count) VALUES (..., 1);
\* is_featured takes the column default false
generatedTemplate(tmpls, dest, input, response) ==
  Template(Len(tmpls) + 1, dest.destination_id, input.duration_days, "BALANCED",
           OrElse(input.traveler_type, GENERAL),
           OrElse(response.daily_schedule, <<>>), 1, None, FALSE)

\* the insert is accepted: daily_schedule NOT NULL and the target_audience CHECK
insertAccepted(input, response) ==
  /\ response.daily_schedule # None
  /\ OrElse(input.traveler_type, GENERAL) \in TargetAudiences

CallIdle == [pc |-> "idle"]

ItineraryInputs ==
  { [destination |-> barcelona, duration_days |-> 3, traveler_type |-> None],
    [destination |-> barcelona, duration_days |-> 3, traveler_type |-> Some(couples)],
    [destination |-> Barcelona, duration_days |-> 3, traveler_type |-> Some(SOLO)],
    [destination |-> Barcelona, duration_days |-> 2, traveler_type |-> None],
    [destination |-> Lima,      duration_days |-> 3, traveler_type |-> None],
    [destination |-> Barcelona, duration_days |-> 0, traveler_type |-> None],
    [destination |-> Barcelona, duration_days |-> 31, traveler_type |-> None] }

durationAcceptsZero(duration_days) == duration_days < 0 \/ duration_days > 30

\* if (duration_days < 1 || duration_days > 30) throw
durationRejected(duration_days) == duration_days < 1 \/ duration_days > 30

failCall(c, error) ==
  [c EXCEPT !.pc = "done", !.status = "error", !.error = error]

\* the call starts: input validation
StartItinerary(c, input) ==
  /\ calls[c].pc = "idle"
  /\ LET started == [pc |-> "destination_query", input |-> input, dest |-> None,
                     template |-> None, response |-> None, status |-> "pending",
                     error |-> "", enrichment |-> "not_called", saved |-> "none",
                     queries |-> 0]
     IN calls' = [calls EXCEPT ![c] =
                    IF durationRejected(input.duration_days)
                    THEN failCall(started, "InvalidInput")
                    ELSE started]
  /\ UNCHANGED <<destinations, preferences, recLog, templates, probe, rec, served, events, inspiration, tool>>

\* the destination query returns
DestinationQuery(c) ==
  /\ calls[c].pc = "destination_query"
  /\ LET found == findDestination(destinations, calls[c].input.destination)
     IN calls' = [calls EXCEPT ![c] =
                    IF found = None
                    THEN failCall([@ EXCEPT !.queries = @ + 1], "NotFound")
                    ELSE [@ EXCEPT !.pc = "template_query", !.dest = found,
                            !.queries = @ + 1]]
  /\ UNCHANGED <<destinations, preferences, recLog, templates, probe, rec, served, events, inspiration, tool>>

\* the template query returns
TemplateQuery(c, tieOrder) ==
  /\ calls[c].pc = "template_query"
  /\ LET found == findTemplate(templates, Val(calls[c].dest), calls[c].input.duration_days,
                               calls[c].input.traveler_type, tieOrder)
     IN calls' = [calls EXCEPT ![c] =
                    IF found = None
                    THEN [@ EXCEPT !.pc = "generate", !.queries = @ + 1]
                    ELSE [@ EXCEPT !.pc = "update_usage", !.template = found,
                            !.queries = @ + 1]]
  /\ UNCHANGED <<destinations, preferences, recLog, templates, probe, rec, served, events, inspiration, tool>>

\* the usage-count UPDATE returns (it is awaited outside any try/catch), then the
\* response is built from the template row read before
UpdateUsageCount(c, ok) ==
  /\ calls[c].pc = "update_usage"
  /\ LET template == Val(calls[c].template)
     IN IF ok
        THEN /\ templates' = incrementUsageCount(templates, template)
             /\ served' = [served EXCEPT ![template.template_id].responses = @ + 1]
             /\ calls' = [calls EXCEPT ![c] =
                            [@ EXCEPT !.pc = "done", !.status = "ok",
                               !.queries = @ + 1,
                               !.response = Some(templateResponse(Val(calls[c].dest),
                                                   calls[c].input.duration_days, template))]]
        ELSE /\ calls' = [calls EXCEPT ![c] =
                            failCall([@ EXCEPT !.queries = @ + 1], "QueryFailed")]
             /\ UNCHANGED <<templates, served>>
  /\ UNCHANGED <<destinations, preferences, recLog, probe, rec, events, inspiration, tool>>

generationThrowsOnIncomplete(outcome) == outcome \in {"unconfigured", "error", "incomplete"}

\* generateItinerary throws: 'OpenAI not configured', or 'Failed to generate
\* itinerary' from its catch block; any text that JSON.parse accepts is returned
generationThrows(outcome) == outcome \in {"unconfigured", "error"}

\* generateItinerary returns or throws
GenerateItinerary(c, outcome) ==
  /\ calls[c].pc = "generate"
  /\ calls' = [calls EXCEPT ![c] =
       IF generationThrows(outcome)
       THEN [@ EXCEPT !.pc = "done", !.status = "ok", !.enrichment = outcome,
               !.response = Some(fallbackResponse(Val(calls[c].dest), calls[c].input.duration_days))]
       ELSE [@ EXCEPT !.pc = "save_template", !.enrichment = outcome,
               !.response = Some(generatedResponse(Val(calls[c].dest), calls[c].input.duration_days,
                                                   outcome))]]
  /\ UNCHANGED <<destinations, preferences, recLog, templates, probe, rec, served, events, inspiration, tool>>

\* the template INSERT returns (inside try/catch), then the response is returned
SaveTemplate(c, ok) ==
  /\ calls[c].pc = "save_template"
  /\ LET accepted == ok /\ insertAccepted(calls[c].input, Val(calls[c].response))
     IN /\ templates' =
             IF accepted
             THEN Append(templates, generatedTemplate(templates, Val(calls[c].dest),
                                      calls[c].input, Val(calls[c].response)))
             ELSE templates
        /\ served' = IF accepted
                     THEN Append(served, [usage0 |-> 1, responses |-> 0])
                     ELSE served
        /\ calls' = [calls EXCEPT ![c] =
                       [@ EXCEPT !.pc = "done", !.status = "ok",
                          !.queries = @ + 1,
                          !.saved = IF accepted THEN "ok" ELSE "failed"]]
  /\ UNCHANGED <<destinations, preferences, recLog, probe, rec, events, inspiration, tool>>

-----------------------------------------------------------------------------
(* SpecItin: concurrent generate-personalized-itinerary invocations *)

NumCalls == 2

Calls == 1..NumCalls

\* the seed template alone, or together with a second featured 3-day template
TemplateTables ==
  { << SeedTemplate >>,
    << SeedTemplate,
       Template(2, 1, 3, "RELAXED", FAMILIES,
                [n \in 1..3 |-> Day(n, TemplateDayKeys)], 1, None, TRUE) >> }

InitItin ==
  /\ destinations = DestinationsTable
  /\ preferences = <<>>
  /\ recLog = <<>>
  /\ templates \in TemplateTables
  /\ probe = ProbeOff
  /\ rec = RecIdle
  /\ calls = [c \in Calls |-> CallIdle]
  /\ served = [k \in DOMAIN templates |->
                 [usage0 |-> templates[k].usage_count, responses |-> 0]]
  /\ events = <<>>
  /\ inspiration = <<>>
  /\ tool = ToolIdle

NextItin ==
  \E c \in Calls :
    \/ \E input \in ItineraryInputs : StartItinerary(c, input)
    \/ DestinationQuery(c)
    \/ \E tieOrder \in {"table", "reverse"} : TemplateQuery(c, tieOrder)
    \/ \E ok \in BOOLEAN : UpdateUsageCount(c, ok)
    \/ \E outcome \in ItineraryOutcomes : GenerateItinerary(c, outcome)
    \/ \E ok \in BOOLEAN : SaveTemplate(c, ok)

SpecItin == InitItin /\ [][NextItin]_vars

\* the steps that end when the repository answers: the handler resumes after each
\* awaited query
RepositoryAnswers(c) ==
  \/ DestinationQuery(c)
  \/ \E tieOrder \in {"table", "reverse"} : TemplateQuery(c, tieOrder)
  \/ \E ok \in BOOLEAN : UpdateUsageCount(c, ok)
  \/ \E ok \in BOOLEAN : SaveTemplate(c, ok)

\* SpecItin with the scheduling the code guarantees: every awaited repository query
\* is answered and the handler continues. The promise of the enrichment call is
\* awaited without a timeout or abort signal set by the code, so nothing obliges
\* GenerateItinerary to happen.
SpecItinFair == SpecItin /\ \A c \in Calls : WF_vars(RepositoryAnswers(c))

\* C10: each call served from a template increases that template's usage_count by
\* exactly 1: after k such calls, in any interleaving of concurrent calls, the counter
\* is its initial value plus k
C10_UsageCountCountsReuses ==
  \A k \in DOMAIN templates :
    templates[k].usage_count = served[k].usage0 + served[k].responses

\* two calls read the same template row with the same usage_count before either
\* updated it, and both were served from it
C10_Witness ==
  \E a \in Calls, b \in Calls :
    /\ a # b
    /\ calls[a].pc = "done" /\ calls[a].status = "ok" /\ calls[a].template # None
    /\ calls[b].pc = "done" /\ calls[b].status = "ok" /\ calls[b].template # None
    /\ calls[a].template = calls[b].template
    /\ served[Val(calls[a].template).template_id].responses = 2
    /\ templates[Val(calls[a].template).template_id].usage_count
         = Val(calls[a].template).usage_count + 2

-----------------------------------------------------------------------------
(* Properties of generate-personalized-itinerary *)

\* the slots every schedule entry of ItineraryResponse carries
SlotFields == {"morning", "afternoon", "evening", "meals", "estimated_cost"}

\* the response's daily_schedule has n entries, numbered 1..n, each with every slot
ScheduleComplete(response, n) ==
  /\ response.daily_schedule # None
  /\ LET schedule == Val(response.daily_schedule)
     IN /\ Len(schedule) = n
        /\ \A i \in 1..Len(schedule) :
             schedule[i].day = i /\ SlotFields \subseteq schedule[i].keys

\* the call found its destination and never saw a configured enrichment capability
FoundWithoutEnrichment(c) ==
  /\ calls[c].pc = "done"
  /\ calls[c].dest # None
  /\ calls[c].enrichment \in {"not_called", "unconfigured"}

\* C11: with the enrichment capability unconfigured, a call for a found destination
\* and a duration in 1..30 never fails and returns a daily_schedule of exactly
\* duration_days entries, numbered 1..duration_days, each with morning, afternoon,
\* evening, meals and estimated_cost
C11_UnconfiguredScheduleComplete ==
  \A c \in Calls :
    FoundWithoutEnrichment(c) =>
      /\ calls[c].status = "ok"
      /\ ScheduleComplete(Val(calls[c].response), calls[c].input.duration_days)

-----------------------------------------------------------------------------
(* The CallTool request handler (index.ts) and the handlers it dispatches to. *)
(* tool is the request being served: its name and arguments, the repository  *)
(* statements and enrichment calls its handler has made, the handler's       *)
(* outcome (a returned payload or a thrown error) and the handler's result.  *)

\* the names of the switch statement
ToolNames ==
  {"get-destination-guide", "generate-personalized-itinerary", "recommend-destinations",
   "get-things-to-do", "get-dining-recommendations", "generate-travel-inspiration",
   "get-seasonal-insights", "analyze-content-performance", "get-local-insights",
   "compare-destinations"}

\* const { name, arguments: args } = request.params
dispatched(name, args) ==
  [pc |-> "dispatched", name |-> name, args |-> args, queries |-> 0, writes |-> 0,
   enrichment |-> "not_called", locals |-> None, outcome |-> None, result |-> None]

\* the handler's promise resolves with a payload
returns(t, payload) ==
  [t EXCEPT !.pc = "handled", !.outcome = Some([status |-> "ok", payload |-> payload])]

\* the handler's promise rejects with an Error
throws(t, message) ==
  [t EXCEPT !.pc = "handled", !.outcome = Some([status |-> "error", message |-> message])]

toolResultUnknownEscapes(name, outcome) ==
  IF outcome.status = "ok"
  THEN [isError |-> FALSE, payload |-> outcome.payload]
  ELSE IF outcome.message = "UnknownTool"
       THEN [escaped |-> outcome.message]
       ELSE [isError |-> TRUE, error |-> outcome.message, tool |-> name,
             timestamp |-> "now"]

\* what the request handler returns: the payload as JSON text, or from the catch
\* block the envelope {error, tool, timestamp} with isError: true
toolResult(name, outcome) ==
  IF outcome.status = "ok"
  THEN [isError |-> FALSE, payload |-> outcome.payload]
  ELSE [isError |-> TRUE, error |-> outcome.message, tool |-> name,
        timestamp |-> "now"]

\* a CallTool request arrives
CallTool(name, args) ==
  /\ tool.pc = "idle"
  /\ tool' = dispatched(name, args)
  /\ UNCHANGED <<destinations, preferences, recLog, templates, probe, rec, calls, served,
                 events, inspiration>>

\* default: throw new Error(`Unknown tool: ${name}`)
UnknownTool ==
  /\ tool.pc = "dispatched"
  /\ tool.name \notin ToolNames
  /\ tool' = throws(tool, "UnknownTool")
  /\ UNCHANGED <<destinations, preferences, recLog, templates, probe, rec, calls, served,
                 events, inspiration>>

\* the request handler returns its result
Respond ==
  /\ tool.pc = "handled"
  /\ tool' = [tool EXCEPT !.pc = "returned",
                          !.result = Some(toolResult(tool.name, Val(tool.outcome)))]
  /\ UNCHANGED <<destinations, preferences, recLog, templates, probe, rec, calls, served,
                 events, inspiration>>

\* a handler that looks up its destination and then only reads: the destination
\* SELECT, the not-found throw, then reads further statements (ok: they succeed)
destinationReader(t, reads, ok) ==
  LET found == findDestination(destinations, t.args.destination)
  IN IF found = None THEN throws([t EXCEPT !.queries = 1], "NotFound")
     ELSE IF reads > 0 /\ ~ ok
          THEN throws([t EXCEPT !.queries = 2], "QueryFailed")
          ELSE returns([t EXCEPT !.queries = 1 + reads],
                       [destination |-> Val(found).city])

\* getThingsToDo: destination SELECT, then one poi_database SELECT
GetThingsToDo(ok) ==
  /\ tool.pc = "dispatched"
  /\ tool.name = "get-things-to-do"
  /\ tool' = destinationReader(tool, 1, ok)
  /\ UNCHANGED <<destinations, preferences, recLog, templates, probe, rec, calls, served,
                 events, inspiration>>

\* getDiningRecommendations: destination SELECT, then one poi_database SELECT
GetDiningRecommendations(ok) ==
  /\ tool.pc = "dispatched"
  /\ tool.name = "get-dining-recommendations"
  /\ tool' = destinationReader(tool, 1, ok)
  /\ UNCHANGED <<destinations, preferences, recLog, templates, probe, rec, calls, served,
                 events, inspiration>>

\* getLocalInsights: destination SELECT only
GetLocalInsights ==
  /\ tool.pc = "dispatched"
  /\ tool.name = "get-local-insights"
  /\ tool' = destinationReader(tool, 0, TRUE)
  /\ UNCHANGED <<destinations, preferences, recLog, templates, probe, rec, calls, served,
                 events, inspiration>>

\* analyzeContentPerformance: two aggregate SELECTs, no destination argument
AnalyzeContentPerformance(ok) ==
  /\ tool.pc = "dispatched"
  /\ tool.name = "analyze-content-performance"
  /\ tool' = IF ok THEN returns([tool EXCEPT !.queries = 2], [summary |-> "stats"])
             ELSE throws([tool EXCEPT !.queries = 1], "QueryFailed")
  /\ UNCHANGED <<destinations, preferences, recLog, templates, probe, rec, calls, served,
                 events, inspiration>>

-----------------------------------------------------------------------------
(* getDestinationGuide *)

\* the length of long_description of the seed rows; rows added later carry none
LongDescriptionLength == <<244, 234, 228, 204, 226>>

\* (dest.long_description || dest.short_description || '').length: a row added
\* later carries no description, except Colon's short_description of 58 characters
introductionLength(dest) ==
  IF dest.destination_id \in DOMAIN LongDescriptionLength
  THEN LongDescriptionLength[dest.destination_id]
  ELSE IF dest.city = Colon THEN 58 ELSE 0

\* what generateDestinationGuide (openai service) does during one call
GuideOutcomes ==
  {"unconfigured",  \* initOpenAI() returns null: the notice string is returned
   "error",         \* the API call throws: 'Failed to generate AI content'
   "content",       \* the completion's message content
   "no_content"}    \* completion without content: 'Unable to generate content'

\* guide_sections = ['OVERVIEW', 'THINGS_TO_DO', 'DINING'] by default
guideSections(args) == OrElse(args.guide_sections, <<"OVERVIEW", "THINGS_TO_DO", "DINING">>)

\* the handler up to the generateDestinationGuide call or, without one, the return
GetDestinationGuide(ok) ==
  /\ tool.pc = "dispatched"
  /\ tool.name = "get-destination-guide"
  /\ LET found    == findDestination(destinations, tool.args.destination)
         sections == guideSections(tool.args)
         reads    == 1 + (IF arrayIncludes(sections, "THINGS_TO_DO") THEN 1 ELSE 0)
                       + (IF arrayIncludes(sections, "DINING") THEN 1 ELSE 0)
         response == [destination |-> Val(found).city,
                      overview |-> arrayIncludes(sections, "OVERVIEW"),
                      introduction |-> IF introductionLength(Val(found)) > 0
                                       THEN "stored" ELSE "empty"]
     IN tool' =
          IF found = None THEN throws([tool EXCEPT !.queries = 1], "NotFound")
          ELSE IF ~ ok THEN throws([tool EXCEPT !.queries = 2], "QueryFailed")
          ELSE IF introductionLength(Val(found)) < 100 /\ arrayIncludes(sections, "OVERVIEW")
               THEN [tool EXCEPT !.pc = "guide_enrich", !.queries = 1 + reads,
                                 !.locals = Some(response)]
               ELSE returns([tool EXCEPT !.queries = 1 + reads], response)
  /\ UNCHANGED <<destinations, preferences, recLog, templates, probe, rec, calls, served,
                 events, inspiration>>

\* generateDestinationGuide returns or throws inside the try/catch; then the return
GuideEnrichmentReturns(outcome) ==
  /\ tool.pc = "guide_enrich"
  /\ LET response == Val(tool.locals)
     IN tool' = returns([tool EXCEPT !.enrichment = outcome],
                        IF outcome = "error" THEN response
                        ELSE [response EXCEPT !.introduction =
                                CASE outcome = "unconfigured" -> "notice"
                                  [] outcome = "content"      -> "generated"
                                  [] OTHER                    -> "unable"])
  /\ UNCHANGED <<destinations, preferences, recLog, templates, probe, rec, calls, served,
                 events, inspiration>>

-----------------------------------------------------------------------------
(* generateTravelInspiration *)

\* what generateInspirationContent (openai service) does during one call
InspirationOutcomes ==
  {"unconfigured",  \* initOpenAI() returns null: throws 'OpenAI not configured'
   "error",         \* the API call or JSON.parse throws
   "complete",      \* JSON with title, subtitle, body and call_to_action
   "no_title"}      \* valid JSON without a title

\* CHECK (content_type IN (...)) of inspiration_content
ContentTypes == {"ARTICLE", "VIDEO", "GALLERY", "ITINERARY", "GUIDE", "EMAIL", "SOCIAL_POST"}

\* generateInspirationContent is awaited first, outside any try/catch
GenerateInspiration(outcome) ==
  /\ tool.pc = "dispatched"
  /\ tool.name = "generate-travel-inspiration"
  /\ tool' =
       CASE outcome = "unconfigured" ->
              throws([tool EXCEPT !.enrichment = outcome], "OpenAI not configured")
         [] outcome = "error" ->
              throws([tool EXCEPT !.enrichment = outcome],
                     "Failed to generate inspiration content")
         [] OTHER ->
              [tool EXCEPT !.pc = "save_inspiration", !.enrichment = outcome,
                           !.locals = Some([title |-> IF outcome = "complete"
                                                      THEN Some("title") ELSE None])]
  /\ UNCHANGED <<destinations, preferences, recLog, templates, probe, rec, calls, served,
                 events, inspiration>>

\* hero_image_url of a row: the seed rows and the deactivated row carry one, the
\* column is nullable; gallery_images is NULL in every row of seed.sql
hero_image_url(dest) ==
  IF dest.destination_id \in DOMAIN LongDescriptionLength \/ dest.city = Lima
  THEN Some(<<"hero_image", dest.destination_id>>)
  ELSE None

\* SELECT gallery_images, hero_image_url FROM destinations
\*   WHERE LOWER(city) = LOWER($1) LIMIT 1;
\* [...(dest.gallery_images || []), dest.hero_image_url].filter(Boolean)
relatedImages(dests, target_destination) ==
  IF target_destination = None THEN <<>>
  ELSE LET rows == SelectSeq(dests, LAMBDA d :
                     toLowerCase(d.city) = toLowerCase(Val(target_destination)))
       IN IF Len(rows) = 0 THEN <<>>
          ELSE LET hero == hero_image_url(rows[1])
               IN IF hero = None THEN <<>> ELSE << Val(hero) >>

\* the image SELECT (only with a target_destination), the INSERT INTO
\* inspiration_content in its try/catch, then the return
SaveInspiration(ok) ==
  /\ tool.pc = "save_inspiration"
  /\ LET aiContent == Val(tool.locals)
         accepted  == /\ ok
                      /\ aiContent.title # None
                      /\ tool.args.content_type \in ContentTypes
                      \* CHECK (theme IN (...)) of inspiration_content
                      /\ tool.args.theme \in {"ADVENTURE", "ROMANCE", "FAMILY", "LUXURY",
                                              "BUDGET", "CULTURAL", "BEACH"}
         reads     == IF tool.args.target_destination # None THEN 1 ELSE 0
     IN /\ inspiration' =
             IF accepted
             THEN Append(inspiration, [content_type |-> tool.args.content_type,
                                       theme |-> tool.args.theme,
                                       title |-> Val(aiContent.title)])
             ELSE inspiration
        /\ tool' = returns([tool EXCEPT !.queries = @ + reads + 1, !.writes = @ + 1,
                                        !.locals = Some([saved |-> accepted])],
                           [title |-> aiContent.title, related_packages |-> <<>>,
                            images |-> slice0(relatedImages(destinations,
                                                tool.args.target_destination), 5)])
  /\ UNCHANGED <<destinations, preferences, recLog, templates, probe, rec, calls, served,
                 events>>

-----------------------------------------------------------------------------
(* NUMERIC columns and JavaScript comparison.  node-postgres hands a NUMERIC  *)
(* column to the handler as its text ("120.00"); the handlers compare and     *)
(* format these values as they are.  A JavaScript value here is a number (in  *)
(* hundredths) or a string (a sequence of characters).                        *)

Digits == <<"0", "1", "2", "3", "4", "5", "6", "7", "8", "9">>

\* the code unit of a character of a NUMERIC text: '.' is 46, '0'..'9' are 48..57
charCode(ch) == IF ch = "." THEN 46 ELSE 47 + (CHOOSE i \in 1..10 : Digits[i] = ch)

RECURSIVE decimalDigits(_)
decimalDigits(n) ==
  IF n < 10 THEN << Digits[n + 1] >>
  ELSE Append(decimalDigits(n \div 10), Digits[(n % 10) + 1])

\* the text of a NUMERIC(8,2) value given in hundredths
numericText(hundredths) ==
  decimalDigits(hundredths \div 100)
    \o << ".", Digits[((hundredths % 100) \div 10) + 1], Digits[(hundredths % 10) + 1] >>

RECURSIVE digitsValue(_)
digitsValue(ds) ==
  IF Len(ds) = 0 THEN 0
  ELSE digitsValue(SubSeq(ds, 1, Len(ds) - 1)) * 10 + (charCode(ds[Len(ds)]) - 48)

JsNumber(n) == [type |-> "number", value |-> n]

JsString(text) == [type |-> "string", value |-> text]

\* Infinity: above every NUMERIC(8,2) value (999999.99)
Infinity == 100000000

\* ToNumber, in hundredths, of a number or of a NUMERIC text
toNumber(v) ==
  IF v.type = "number" THEN v.value
  ELSE digitsValue(SelectSeq(v.value, LAMBDA ch : ch # "."))

\* s < t for two strings: the first differing code unit decides, a proper prefix
\* is smaller
stringLess(s, t) ==
  \E k \in 1..Len(t) :
    /\ \A i \in 1..(k - 1) : i <= Len(s) /\ s[i] = t[i]
    /\ (k > Len(s) \/ charCode(s[k]) < charCode(t[k]))

\* a < b: two strings compare as strings, everything else as numbers
jsLess(a, b) ==
  IF a.type = "string" /\ b.type = "string"
  THEN stringLess(a.value, b.value)
  ELSE toNumber(a) < toNumber(b)

\* dest.average_daily_cost_usd || 100 (the column's text is never an empty string)
costOf(dest) ==
  IF dest.average_daily_cost_usd = None THEN JsNumber(100 * 100)
  ELSE JsString(numericText(Val(dest.average_daily_cost_usd) * 100))

-----------------------------------------------------------------------------
(* compareDestinations *)

\* dest.popular_activities?.length || 0: five entries in each seed row
popularActivitiesCount(dest) == IF dest.destination_id \in 1..5 THEN 5 ELSE 0

\* if (destinations.length < 2 || destinations.length > 4) throw
countRejected(names) == Len(names) < 2 \/ Len(names) > 4

\* SELECT * FROM destinations WHERE LOWER(city) = ANY($1) AND is_active = true,
\* $1 being the lower-cased names; without ORDER BY the rows come in table order
\* or in its reverse
compareRows(dests, names, tieOrder) ==
  LET lowered == [i \in 1..Len(names) |-> toLowerCase(names[i])]
      hits    == SelectSeq(dests, LAMBDA d :
                   d.is_active /\ arrayIncludes(lowered, toLowerCase(d.city)))
  IN IF tieOrder = "table" THEN hits ELSE Reverse(hits)

\* the forEach of the cost comparison from row i on: minCost and budgetWinner
RECURSIVE costScan(_, _, _, _)
costScan(dests, i, minCost, budgetWinner) ==
  IF i > Len(dests) THEN budgetWinner
  ELSE IF jsLess(costOf(dests[i]), minCost)
       THEN costScan(dests, i + 1, costOf(dests[i]), dests[i].city)
       ELSE costScan(dests, i + 1, minCost, budgetWinner)

\* the forEach of the activities comparison from row i on
RECURSIVE activityScan(_, _, _, _)
activityScan(dests, i, maxActivities, activityWinner) ==
  IF i > Len(dests) THEN activityWinner
  ELSE IF popularActivitiesCount(dests[i]) > maxActivities
       THEN activityScan(dests, i + 1, popularActivitiesCount(dests[i]), dests[i].city)
       ELSE activityScan(dests, i + 1, maxActivities, activityWinner)

\* values[dest.city] = `$${cost}/day`: a later row of the same city overwrites
costValues(dests) ==
  [city \in {dests[i].city : i \in 1..Len(dests)} |->
     LET last == CHOOSE i \in 1..Len(dests) :
                   /\ dests[i].city = city
                   /\ \A j \in (i + 1)..Len(dests) : dests[j].city # city
     IN costOf(dests[last]).value]

\* the criterion rows pushed for one entry of the criteria in the handler's order
criterionRows(dests, comparison_criteria) ==
  (IF arrayIncludes(comparison_criteria, "COST")
   THEN << [criterion |-> "Average Daily Cost", values |-> costValues(dests),
            winner |-> Some(costScan(dests, 1, JsNumber(Infinity), <<>>))] >>
   ELSE <<>>)
  \o (IF arrayIncludes(comparison_criteria, "WEATHER")
      THEN << [criterion |-> "Average Temperature (Current Month)", winner |-> None] >>
      ELSE <<>>)
  \o (IF arrayIncludes(comparison_criteria, "ACTIVITIES")
      THEN << [criterion |-> "Popular Activities",
               winner |-> Some(activityScan(dests, 1, 0, <<>>))] >>
      ELSE <<>>)
  \o (IF arrayIncludes(comparison_criteria, "CULTURE")
      THEN << [criterion |-> "Destination Type", winner |-> None] >>
      ELSE <<>>)
  \o (IF arrayIncludes(comparison_criteria, "FAMILY_FRIENDLY")
      THEN << [criterion |-> "Family-Friendly", winner |-> None] >>
      ELSE <<>>)

\* dests.reduce((min, dest) => cost(dest) < cost(min) ? dest : min) from row i on
RECURSIVE budgetDest(_, _, _)
budgetDest(dests, i, min) ==
  IF i > Len(dests) THEN min
  ELSE budgetDest(dests, i + 1,
                  IF jsLess(costOf(dests[i]), costOf(min)) THEN dests[i] ELSE min)

\* the whole handler: validation, the destinations SELECT, the not-found throw,
\* the comparison matrix and the recommendation
CompareDestinations(tieOrder) ==
  /\ tool.pc = "dispatched"
  /\ tool.name = "compare-destinations"
  /\ LET names    == tool.args.destinations
         criteria == OrElse(tool.args.comparison_criteria,
                            <<"COST", "WEATHER", "ACTIVITIES", "CULTURE">>)
         dests    == compareRows(destinations, names, tieOrder)
     IN tool' =
          IF countRejected(names) THEN throws(tool, "InvalidInput")
          ELSE IF Len(dests) < Len(names)
               THEN throws([tool EXCEPT !.queries = 1], "NotFound")
               ELSE returns([tool EXCEPT !.queries = 1, !.locals = Some([dests |-> dests])],
                            [destinations |-> [i \in 1..Len(dests) |-> dests[i].city],
                             criteria |-> criterionRows(dests, criteria),
                             best_for_budget |-> budgetDest(dests, 2, dests[1]).city])
  /\ UNCHANGED <<destinations, preferences, recLog, templates, probe, rec, calls, served,
                 events, inspiration>>

-----------------------------------------------------------------------------
(* getSeasonalInsights *)

MonthNames == <<"January", "February", "March", "April", "May", "June", "July",
                "August", "September", "October", "November", "December">>

LowerMonthNames == <<"january", "february", "march", "april", "may", "june", "july",
                     "august", "september", "october", "november", "december">>

\* the month number of an Invalid Date: getMonth() is NaN, which equals no month
NaN == 0

\* new Date(`${currentMonth} 1, 2024`).getMonth() + 1; the date parser ignores
\* letter case
monthIndex(currentMonth) ==
  IF \E i \in 1..12 : currentMonth \in {MonthNames[i], LowerMonthNames[i]}
  THEN CHOOSE i \in 1..12 : currentMonth \in {MonthNames[i], LowerMonthNames[i]}
  ELSE NaN

\* const seasons: Record<string, string[]>, in insertion order
seasons ==
  << [season |-> "Winter", months |-> <<"December", "January", "February">>],
     [season |-> "Spring", months |-> <<"March", "April", "May">>],
     [season |-> "Summer", months |-> <<"June", "July", "August">>],
     [season |-> "Fall",   months |-> <<"September", "October", "November">>] >>

\* the loop over Object.entries(seasons): the first season listing the month,
\* 'Year-round' without one
seasonOf(currentMonth) ==
  LET hits == SelectSeq(seasons, LAMBDA s : arrayIncludes(s.months, currentMonth))
  IN IF Len(hits) > 0 THEN hits[1].season ELSE "Year-round"

\* a seasonal_events row (only the columns the handler reads)
Event(id, dest, name, month, day, relevance) ==
  [event_id |-> id, destination_id |-> dest, event_name |-> name,
   start_date |-> [year |-> 2025, month |-> month, day |-> day],
   relevance_score |-> relevance]

\* the seasonal_events rows of database/seed.sql; relevance in hundredths
SeedEvents ==
  << Event(1, 1, "La Merce Festival", 9, 24, Some(95)),
     Event(2, 1, "Primavera Sound", 5, 28, Some(85)) >>

\* ORDER BY relevance_score DESC: a NULL score sorts before every score
relevanceOrderKey(e) == IF e.relevance_score = None THEN 101 ELSE Val(e.relevance_score)

eventsQueryAnyMonth(evts, destination_id, month, tieOrder) ==
  LET hits == SelectSeq(evts, LAMBDA e : e.destination_id = destination_id)
      base == IF tieOrder = "table" THEN hits ELSE Reverse(hits)
  IN slice0(stableSortDesc(base, relevanceOrderKey), 5)

\* SELECT * FROM seasonal_events WHERE destination_id = $1
\* AND EXTRACT(MONTH FROM start_date) = $2 ORDER BY relevance_score DESC LIMIT 5
eventsQuery(evts, destination_id, month, tieOrder) ==
  LET hits == SelectSeq(evts, LAMBDA e :
                e.destination_id = destination_id /\ e.start_date.month = month)
      base == IF tieOrder = "table" THEN hits ELSE Reverse(hits)
  IN slice0(stableSortDesc(base, relevanceOrderKey), 5)

\* the whole handler; now is the month of new Date(), used without a month argument
GetSeasonalInsights(now, tieOrder, ok) ==
  /\ tool.pc = "dispatched"
  /\ tool.name = "get-seasonal-insights"
  /\ LET found          == findDestination(destinations, tool.args.destination)
         currentMonth   == OrElse(tool.args.month, now)
         include_events == OrElse(tool.args.include_events, TRUE)
         rows           == eventsQuery(events, Val(found).destination_id,
                                       monthIndex(currentMonth), tieOrder)
     IN tool' =
          IF found = None THEN throws([tool EXCEPT !.queries = 1], "NotFound")
          ELSE IF include_events /\ ~ ok
               THEN throws([tool EXCEPT !.queries = 2], "QueryFailed")
               ELSE returns([tool EXCEPT !.queries = IF include_events THEN 2 ELSE 1],
                            [destination |-> Val(found).city,
                             month |-> currentMonth,
                             season |-> seasonOf(currentMonth),
                             events |-> IF include_events
                                        THEN [i \in 1..Len(rows) |-> rows[i].event_id]
                                        ELSE <<>>])
  /\ UNCHANGED <<destinations, preferences, recLog, templates, probe, rec, calls, served,
                 events, inspiration>>

-----------------------------------------------------------------------------
(* The cases of the switch that run generatePersonalizedItinerary (as call 1) *)
(* and recommendDestinations                                                  *)

\* case 'generate-personalized-itinerary': the handler is called with args
DispatchItinerary ==
  /\ tool.pc = "dispatched"
  /\ tool.name = "generate-personalized-itinerary"
  /\ StartItinerary(1, tool.args)

\* generatePersonalizedItinerary has returned or thrown
ItineraryReturns ==
  /\ tool.pc = "dispatched"
  /\ tool.name = "generate-personalized-itinerary"
  /\ calls[1].pc = "done"
  /\ LET t == [tool EXCEPT !.queries = calls[1].queries,
                           !.enrichment = calls[1].enrichment,
                           !.writes = (IF calls[1].template # None THEN 1 ELSE 0)
                                      + (IF calls[1].saved # "none" THEN 1 ELSE 0)]
     IN tool' = IF calls[1].status = "ok"
                THEN returns(t, Val(calls[1].response))
                ELSE throws(t, calls[1].error)
  /\ UNCHANGED <<destinations, preferences, recLog, templates, probe, rec, calls, served,
                 events, inspiration>>

\* case 'recommend-destinations': the handler is called with args
DispatchRecommend(tieOrder) ==
  /\ tool.pc = "dispatched"
  /\ tool.name = "recommend-destinations"
  /\ Recommend(tool.args, tieOrder)

\* recommendDestinations has returned, or thrown the TypeError of calling map on
\* a value that is not an array
RecommendReturns ==
  /\ tool.pc = "dispatched"
  /\ tool.name = "recommend-destinations"
  /\ rec.pc = "done"
  /\ LET t == [tool EXCEPT !.queries = (IF rec.input.passenger_id # None THEN 2 ELSE 1)
                                       + (IF rec.logWrite # "none" THEN 1 ELSE 0),
                           !.enrichment = rec.enrichment,
                           !.writes = IF rec.logWrite # "none" THEN 1 ELSE 0]
     IN tool' = IF rec.status = "ok"
                THEN returns(t, [recommendations |-> rec.recommendations])
                ELSE throws(t, "TypeError")
  /\ UNCHANGED <<destinations, preferences, recLog, templates, probe, rec, calls, served,
                 events, inspiration>>

-----------------------------------------------------------------------------
(* SpecTools: one CallTool request served by the dispatch handler *)

\* the repository as seeded; with a second active row named Cartagena placed first;
\* with an active row whose only description is a short_description and an active
\* row with no description and no popular_activities
DestinationTables ==
  { DestinationsTable,
    << Destination(7, Cartagena, Some(<<CULTURAL, BEACH>>), Some(<<"May", "June">>),
                   Some(45), Some(45), Some("MODERATE"), Some(90), TRUE) >>
      \o DestinationsTable,
    DestinationsTable \o
    << Destination(8, Colon, Some(<<BEACH>>), Some(<<"January">>),
                   Some(35), Some(30), Some("BUDGET"), Some(70), TRUE),
       Destination(9, David, Some(<<ADVENTURE>>), Some(<<"February">>),
                   Some(40), Some(35), Some("BUDGET"), Some(60), TRUE) >> }

\* the seed events alone, or with more September events of Barcelona than the
\* LIMIT keeps (two of equal relevance, one without relevance) and one of Tokyo
EventTables ==
  { SeedEvents,
    SeedEvents \o
    << Event(3, 1, "Festa Major de Sants", 9, 1, Some(90)),
       Event(4, 1, "Diada", 9, 11, Some(90)),
       Event(5, 1, "Mercat de Musica Viva", 9, 14, Some(70)),
       Event(6, 1, "Open House", 9, 20, None),
       Event(7, 1, "Wine Fair", 9, 26, Some(40)),
       Event(8, 2, "Tokyo Game Show", 9, 25, Some(80)) >> }

RecommendToolInputs ==
  { i \in RecommendInputs :
      /\ i.passenger_id \in {None, Some("p1")}
      /\ i.context \in {Context(None, None, None, None),
                         Context(Some(<<beach>>), None, None, None)}
      /\ i.recommendation_count = None }

SeasonalInputs ==
  [destination : {Barcelona, Lima},
   month : {None, Some("september"), Some("Smarch")}
             \cup {Some(MonthNames[i]) : i \in 1..12},
   include_events : {None, Some(FALSE)}]

CompareInputs ==
  [destinations : { <<Barcelona>>, <<Barcelona, Tokyo>>, <<Barcelona, Cartagena>>,
                    <<Tokyo, Dubai, PanamaCity>>, <<Barcelona, Lima>>,
                    <<Cartagena, Lima>>, <<Barcelona, barcelona>>, <<Colon, David>>,
                    <<Barcelona, Tokyo, Dubai, PanamaCity, Cartagena>> },
   comparison_criteria : {None, Some(<<"COST">>)}]

\* the requests: a tool name with arguments for it
ToolRequests ==
  { [name |-> "get-destination-guide", args |-> a] :
      a \in [destination : {Barcelona, Cartagena, Lima, Colon},
             guide_sections : {None, Some(<<"DINING">>)}] }
  \cup { [name |-> "generate-personalized-itinerary", args |-> a] : a \in ItineraryInputs }
  \cup { [name |-> "recommend-destinations", args |-> a] : a \in RecommendToolInputs }
  \cup { [name |-> n, args |-> [destination |-> d]] :
           n \in {"get-things-to-do", "get-dining-recommendations", "get-local-insights",
                  "get-weather"},
           d \in {barcelona, Lima} }
  \cup { [name |-> "generate-travel-inspiration", args |-> a] :
           a \in [content_type : {"ARTICLE", "BLOG"}, theme : {"BEACH"},
                  target_destination : {None, Some(Barcelona), Some(Lima)}] }
  \cup { [name |-> "get-seasonal-insights", args |-> a] : a \in SeasonalInputs }
  \cup { [name |-> "analyze-content-performance", args |-> [content_type |-> None]] }
  \cup { [name |-> "compare-destinations", args |-> a] : a \in CompareInputs }

InitTools ==
  /\ destinations \in DestinationTables
  /\ preferences = << Preference("p1", Some(<<HISTORY, beachLife>>), Some("MODERATE"), None) >>
  /\ recLog = <<>>
  /\ templates = << SeedTemplate >>
  /\ probe = ProbeOff
  /\ rec = RecIdle
  /\ calls = [c \in Calls |-> CallIdle]
  /\ served = [k \in DOMAIN templates |->
                 [usage0 |-> templates[k].usage_count, responses |-> 0]]
  /\ events \in EventTables
  /\ inspiration = <<>>
  /\ tool = ToolIdle

NextTools ==
  \/ \E request \in ToolRequests : CallTool(request.name, request.args)
  \/ UnknownTool
  \/ Respond
  \/ \E ok \in BOOLEAN : GetDestinationGuide(ok)
  \/ \E outcome \in GuideOutcomes : GuideEnrichmentReturns(outcome)
  \/ DispatchItinerary
  \/ DestinationQuery(1)
  \/ \E tieOrder \in {"table", "reverse"} : TemplateQuery(1, tieOrder)
  \/ \E ok \in BOOLEAN : UpdateUsageCount(1, ok)
  \/ \E outcome \in ItineraryOutcomes : GenerateItinerary(1, outcome)
  \/ \E ok \in BOOLEAN : SaveTemplate(1, ok)
  \/ ItineraryReturns
  \/ \E tieOrder \in {"table", "reverse"} : DispatchRecommend(tieOrder)
  \/ \E outcome \in EnrichmentOutcomes : PersonalizeReturns(outcome)
  \/ \E ok \in BOOLEAN : LogRecommendation(ok)
  \/ RecommendReturns
  \/ \E ok \in BOOLEAN : GetThingsToDo(ok)
  \/ \E ok \in BOOLEAN : GetDiningRecommendations(ok)
  \/ GetLocalInsights
  \/ \E outcome \in InspirationOutcomes : GenerateInspiration(outcome)
  \/ \E ok \in BOOLEAN : SaveInspiration(ok)
  \/ \E now \in {"May", "September"}, tieOrder \in {"table", "reverse"}, ok \in BOOLEAN :
       GetSeasonalInsights(now, tieOrder, ok)
  \/ \E ok \in BOOLEAN : AnalyzeContentPerformance(ok)
  \/ \E tieOrder \in {"table", "reverse"} : CompareDestinations(tieOrder)

SpecTools == InitTools /\ [][NextTools]_vars

-----------------------------------------------------------------------------
(* Properties of the dispatch handler and its tools (checked under SpecTools) *)

\* the request has been answered
Answered == tool.pc = "returned"

\* the answer is a success payload, not marked as an error
Succeeded ==
  /\ Answered
  /\ Val(tool.outcome).status = "ok"
  /\ Val(tool.result) = [isError |-> FALSE, payload |-> Val(tool.outcome).payload]

\* C12: when the enrichment capability is unconfigured or its call fails, no tool
\* that uses it (get-destination-guide, generate-personalized-itinerary,
\* generate-travel-inspiration, recommend-destinations) answers with an error because
\* of it: the answer is a success payload
C12_EnrichmentFailureAbsorbed ==
  (Answered /\ tool.enrichment \in {"unconfigured", "error"}) =>
    Val(tool.outcome).status = "ok" /\ Succeeded

\* a repository write of the answered request failed: the usage-count UPDATE or
\* the template INSERT of the itinerary tool, the log INSERT of the recommendation
\* tool, the INSERT of inspiration content
WriteFailed ==
  /\ Answered
  /\ \/ /\ tool.name = "generate-personalized-itinerary"
        /\ (calls[1].error = "QueryFailed" \/ calls[1].saved = "failed")
     \/ /\ tool.name = "recommend-destinations"
        /\ rec.logWrite = "failed"
     \/ /\ tool.name = "generate-travel-inspiration"
        /\ tool.locals = Some([saved |-> FALSE])

\* C13: a failed repository write (usage-count update, insert of a generated
\* template, insert of a recommendation-log entry, insert of inspiration content)
\* never makes the tool call fail: the primary response is returned successfully
C13_FailedWriteAbsorbed == WriteFailed => Succeeded

\* the handler of the request has made no repository statement and no enrichment call
NothingTouched ==
  /\ tool.queries = 0 /\ tool.writes = 0 /\ tool.enrichment = "not_called"
  /\ templates = << SeedTemplate >> /\ recLog = <<>> /\ inspiration = <<>>

\* C14: generate-personalized-itinerary with duration_days outside 1..30, and
\* compare-destinations with fewer than 2 or more than 4 destinations, fail with an
\* input error before any repository query and before any enrichment call
C14_InvalidInputFailsFirst ==
  /\ (tool.pc # "idle" /\ tool.name = "generate-personalized-itinerary"
        /\ tool.args.duration_days \notin 1..30) =>
       /\ calls[1].pc \in {"idle", "done"}
       /\ calls[1].pc = "done" =>
            /\ calls[1].status = "error" /\ calls[1].error = "InvalidInput"
            /\ calls[1].queries = 0 /\ calls[1].enrichment = "not_called"
       /\ tool.pc \in {"handled", "returned"} =>
            /\ Val(tool.outcome) = [status |-> "error", message |-> "InvalidInput"]
            /\ NothingTouched
  /\ (tool.pc \in {"handled", "returned"} /\ tool.name = "compare-destinations"
        /\ Len(tool.args.destinations) \notin 2..4) =>
       /\ Val(tool.outcome) = [status |-> "error", message |-> "InvalidInput"]
       /\ NothingTouched

\* a comparison of five destinations, all of them in the repository, was answered
\* with the error envelope
C14_Witness ==
  /\ Answered
  /\ tool.name = "compare-destinations"
  /\ Len(tool.args.destinations) = 5
  /\ \A i \in 1..5 : findDestination(destinations, tool.args.destinations[i]) # None
  /\ Val(tool.result).isError
  /\ Val(tool.result).error = "InvalidInput"

\* C15: for compare-destinations over 2 to 4 found destinations with criteria =
\* [COST], the comparison matrix has exactly one criterion row, and its winner is a
\* compared destination whose average_daily_cost_usd is the lowest among the
\* compared destinations
C15_CostWinnerIsCheapest ==
  (/\ tool.pc \in {"handled", "returned"}
   /\ tool.name = "compare-destinations"
   /\ tool.args.comparison_criteria = Some(<<"COST">>)
   /\ Val(tool.outcome).status = "ok") =>
    LET dests    == Val(tool.locals).dests
        criteria == Val(tool.outcome).payload.criteria
    IN /\ Len(criteria) = 1
       /\ criteria[1].winner # None
       /\ \E i \in 1..Len(dests) :
            /\ dests[i].city = Val(criteria[1].winner)
            /\ \A j \in 1..Len(dests) :
                 Val(dests[i].average_daily_cost_usd) <= Val(dests[j].average_daily_cost_usd)

\* the season of the fixed partition for month number i
PartitionSeason(i) ==
  CASE i \in {12, 1, 2} -> "Winter"
    [] i \in 3..5       -> "Spring"
    [] i \in 6..8       -> "Summer"
    [] i \in 9..11      -> "Fall"

\* the seasonal_events row with the given id
EventById(id) == CHOOSE e \in {events[k] : k \in 1..Len(events)} : e.event_id = id

C17_TwoOutcomes ==
  /\ tool.pc = "handled" => ENABLED Respond
  /\ Answered =>
       LET r == Val(tool.result)
           o == Val(tool.outcome)
       IN IF o.status = "ok"
          THEN /\ DOMAIN r = {"isError", "payload"}
               /\ ~ r.isError
               /\ r.payload = o.payload
          ELSE /\ DOMAIN r = {"isError", "error", "tool", "timestamp"}
               /\ r.isError
               /\ r.error = o.message
               /\ r.tool = tool.name

\* an unknown tool name was answered with the error envelope naming it
C17_Witness ==
  /\ Answered
  /\ tool.name \notin ToolNames
  /\ Val(tool.result) = [isError |-> TRUE, error |-> "UnknownTool",
                         tool |-> tool.name, timestamp |-> "now"]

\* the tools that take one destination
SingleDestinationTools ==
  {"get-destination-guide", "generate-personalized-itinerary", "get-things-to-do",
   "get-dining-recommendations", "get-seasonal-insights", "get-local-insights"}

\* the destination names a handled request refers to, its input being accepted
ReferencedDestinations ==
  IF tool.name = "compare-destinations"
  THEN IF countRejected(tool.args.destinations) THEN {}
       ELSE {tool.args.destinations[i] : i \in 1..Len(tool.args.destinations)}
  ELSE IF tool.name = "generate-personalized-itinerary"
          /\ durationRejected(tool.args.duration_days)
       THEN {}
       ELSE {tool.args.destination}

\* C18: for every tool that requires a destination (get-destination-guide,
\* generate-personalized-itinerary, get-things-to-do, get-dining-recommendations,
\* get-seasonal-insights, get-local-insights, compare-destinations), when a
\* referenced destination has no active row the call fails with a not-found error,
\* and it makes no enrichment call and no repository write
C18_MissingDestinationNotFound ==
  (/\ tool.pc \in {"handled", "returned"}
   /\ tool.name \in SingleDestinationTools \cup {"compare-destinations"}
   /\ \E n \in ReferencedDestinations : findDestination(destinations, n) = None) =>
    /\ Val(tool.outcome) = [status |-> "error", message |-> "NotFound"]
    /\ tool.writes = 0
    /\ tool.enrichment = "not_called"
    /\ templates = << SeedTemplate >> /\ recLog = <<>> /\ inspiration = <<>>

\* call a resolved its request by generative synthesis and its template INSERT
\* was accepted; call c asks for the same destination, duration and traveler type
SavedFor(a, c) ==
  /\ a # c
  /\ calls[a].pc = "done"
  /\ calls[a].saved = "ok"
  /\ calls[a].dest = calls[c].dest
  /\ calls[a].input.duration_days = calls[c].input.duration_days
  /\ calls[a].input.traveler_type = calls[c].input.traveler_type

\* C19: after generate-personalized-itinerary resolved a request by generative
\* synthesis and persisted the generated itinerary as a template, a request for the
\* same destination, duration and traveler type whose template lookup runs later is
\* served from the template lookup, and does not go on to the enrichment capability
C19_SavedTemplateServesLater ==
  [][\A c \in Calls :
       (/\ calls[c].pc = "template_query"
        /\ calls'[c].pc # "template_query"
        /\ \E a \in Calls : SavedFor(a, c))
         => /\ calls'[c].pc = "update_usage"
            /\ calls'[c].template # None]_vars

\* C20: the response of generate-personalized-itinerary has the same shape
\* whichever tier serves it (template, generative, deterministic fallback): the
\* fields itinerary, daily_schedule, alternative_options, packing_list and
\* budget_breakdown are all present, itinerary.total_days equals the requested
\* duration_days, and daily_schedule has duration_days entries, each with the slot
\* fields morning, afternoon, evening, meals and estimated_cost
C20_SameShapeAcrossTiers ==
  \A c \in Calls :
    (calls[c].pc = "done" /\ calls[c].status = "ok") =>
      LET response == Val(calls[c].response)
      IN /\ response.tier \in {"template", "generated", "fallback"}
         /\ response.fields = ResponseFields
         /\ response.total_days = Some(calls[c].input.duration_days)
         /\ response.daily_schedule # None
         /\ Len(Val(response.daily_schedule)) = calls[c].input.duration_days
         /\ \A i \in 1..Len(Val(response.daily_schedule)) :
              SlotFields \subseteq Val(response.daily_schedule)[i].keys

\* call c has started and has not failed its input validation
Running(c) == calls[c].pc # "idle" /\ calls[c].error # "InvalidInput"

\* C21: in generate-personalized-itinerary the enrichment capability is called only
\* after the template lookup returned nothing, and the deterministic fallback is
\* produced only after the enrichment call was unavailable or failed; a request
\* served from a template makes no enrichment call and inserts no template
C21_TiersInOrder ==
  [][\A c \in Calls :
       (Running(c) /\ calls'[c] # calls[c]) =>
         \* the call waits for the enrichment capability only out of a template
         \* lookup that, on the table of that moment, finds nothing
         /\ (calls'[c].pc = "generate") =>
              /\ calls[c].pc = "template_query"
              /\ \A tieOrder \in {"table", "reverse"} :
                   findTemplate(templates, Val(calls[c].dest),
                                calls[c].input.duration_days,
                                calls[c].input.traveler_type, tieOrder) = None
         \* the enrichment outcome is recorded only by a call that was waiting
         /\ (calls'[c].enrichment # calls[c].enrichment) =>
              calls[c].pc = "generate" /\ calls[c].template = None
         \* the fallback response follows an unavailable or failed enrichment call
         /\ (calls'[c].response # None /\ Val(calls'[c].response).tier = "fallback") =>
              /\ calls[c].pc = "generate"
              /\ calls'[c].enrichment \in {"unconfigured", "error"}
         \* a call that got a template never calls the capability nor inserts
         /\ (calls'[c].template # None) =>
              /\ calls'[c].enrichment = "not_called"
              /\ calls'[c].saved = "none"
              /\ Len(templates') = Len(templates)]_vars

\* one call was served from a template and another by the fallback after the
\* enrichment call failed
C21_Witness ==
  \E a \in Calls, b \in Calls :
    /\ calls[a].pc = "done" /\ calls[a].status = "ok"
    /\ Val(calls[a].response).tier = "template"
    /\ calls[a].enrichment = "not_called"
    /\ calls[b].pc = "done" /\ calls[b].status = "ok"
    /\ Val(calls[b].response).tier = "fallback"
    /\ calls[b].enrichment = "error"

\* C22: generated content never overrides a value the repository holds for the same
\* field: get-destination-guide keeps a non-empty introduction taken from the
\* destination's stored description whatever the enrichment capability returns, and
\* a generated itinerary always carries the repository's city name as its destination
C22_StoredValuesKept ==
  (/\ tool.pc \in {"handled", "returned"}
   /\ Val(tool.outcome).status = "ok"
   /\ tool.name \in {"get-destination-guide", "generate-personalized-itinerary"}) =>
    LET dest    == Val(findDestination(destinations, tool.args.destination))
        payload == Val(tool.outcome).payload
    IN IF tool.name = "get-destination-guide"
       THEN (payload.overview /\ introductionLength(dest) > 0) =>
              payload.introduction = "stored"
       ELSE payload.destination = dest.city

Showed(e, city) ==
  \E j \in DOMAIN e.recommendations_shown :
    IF e.recommendations_shown[j].kind = "string"
    THEN e.recommendations_shown[j].text = city
    ELSE e.recommendations_shown[j].destination = city

\* the number of log entries, existing when the invocation started, that showed city
ShownCount(city) == Cardinality({k \in DOMAIN rec.log0 : Showed(rec.log0[k], city)})

\* C24: the popularity term of a candidate's score is min(2 x n, 10) where n is the
\* number of existing recommendation-log entries that showed that candidate, entries
\* logged by recommend-destinations itself included
C24_PopularityCountsLoggedEntries ==
  rec.pc # "idle" =>
    \A i \in DOMAIN rec.rows :
      /\ rec.rows[i].popularity_score = ShownCount(rec.rows[i].city)
      /\ popularityBoost(0, rec.rows[i]) = Min(2 * ShownCount(rec.rows[i].city), 10) * 10

\* C25: match reasons reflect the scoring terms that fired: whenever a context
\* interest added points to a returned candidate's score, that candidate's match
\* reasons contain the interest-match reason, and whenever the travel-month term
\* added points they contain the seasonal reason
C25_ReasonsFollowScoringTerms ==
  Returned =>
    \A i \in DOMAIN rec.recommendations :
      LET dest    == rec.personalizedDestinations[i]
          context == rec.input.context
      IN /\ contextBoost(0, dest, context) > 0 =>
              "Matches your interest" \in reasonSet(rec.recommendations[i])
         /\ seasonalBoost(0, dest, context) > 0 =>
              "Perfect weather" \in reasonSet(rec.recommendations[i])

\* C26: every generate-personalized-itinerary request eventually reaches a terminal
\* outcome (a response or an error), also when the enrichment provider never answers
C26_EveryRequestTerminates ==
  \A c \in Calls : (calls[c].pc # "idle") ~> (calls[c].pc = "done")

\* table new is table old with rows appended: no row changed or removed
Extends(new, old) ==
  /\ Len(new) >= Len(old)
  /\ \A k \in DOMAIN old : new[k] = old[k]

\* C27: the only repository mutations of a step of any tool are adding 1 to one
\* template's usage_count, inserting an itinerary template, inserting a
\* recommendation-log entry and inserting an inspiration-content row: no template is
\* deleted, no usage_count decreases, no existing log entry is changed or removed,
\* and destinations, seasonal events and traveler preference profiles are never
\* modified
C27_OnlyFourMutations ==
  [][/\ destinations' = destinations
     /\ events' = events
     /\ preferences' = preferences
     /\ Extends(recLog', recLog)
     /\ Extends(inspiration', inspiration)
     /\ Len(templates') >= Len(templates)
     /\ \A k \in DOMAIN templates :
          \/ templates'[k] = templates[k]
          \/ templates'[k] = [templates[k] EXCEPT !.usage_count = @ + 1]
     /\ Cardinality({k \in DOMAIN templates : templates'[k] # templates[k]})
          + (Len(templates') - Len(templates))
          + (Len(recLog') - Len(recLog))
          + (Len(inspiration') - Len(inspiration)) <= 1]_vars

\* a request served from the seeded template has been answered, and the template's
\* usage_count is one more than before
C27_Witness ==
  /\ Answered
  /\ tool.name = "generate-personalized-itinerary"
  /\ Succeeded
  /\ Val(tool.outcome).payload.tier = "template"
  /\ templates = << [SeedTemplate EXCEPT !.usage_count = @ + 1] >>

\* the rows of a returned comparison that carry the given criterion
CriterionRows(criterion) ==
  LET criteria == Val(tool.outcome).payload.criteria
  IN {criteria[k] : k \in {n \in DOMAIN criteria : criteria[n].criterion = criterion}}

\* C28: when ACTIVITIES is among the requested criteria, the 'Popular Activities' row
\* of compare-destinations declares as winner one of the compared destinations, and
\* that destination has the highest popular-activity count among them
C28_ActivityWinnerIsBusiest ==
  (/\ tool.pc \in {"handled", "returned"}
   /\ tool.name = "compare-destinations"
   /\ Val(tool.outcome).status = "ok"
   /\ arrayIncludes(OrElse(tool.args.comparison_criteria,
                           <<"COST", "WEATHER", "ACTIVITIES", "CULTURE">>),
                    "ACTIVITIES")) =>
    LET dests == Val(tool.locals).dests
    IN /\ CriterionRows("Popular Activities") # {}
       /\ \A row \in CriterionRows("Popular Activities") :
            \E i \in DOMAIN dests :
              /\ row.winner = Some(dests[i].city)
              /\ \A j \in DOMAIN dests :
                   popularActivitiesCount(dests[i]) >= popularActivitiesCount(dests[j])

\* every active destination that passes the request's filters, as a scored row
AllScoredRows ==
  scoreRows(candidateRows(destinations, rec.log0, rec.input.context,
                          Len(destinations), "table"),
            rec.userPreferences, rec.input.context)

\* C29: the recommendations returned are the highest-scoring destinations among all
\* active destinations that pass the request's filters: no active destination that
\* passes the filters and is left out of the result has a higher match score than a
\* destination that is returned
C29_ReturnedAreHighestScoring ==
  Returned =>
    \A k \in DOMAIN AllScoredRows :
      (\A i \in DOMAIN rec.recommendations :
          rec.recommendations[i].destination # AllScoredRows[k].city) =>
        \A i \in DOMAIN rec.recommendations :
          Val(AllScoredRows[k].match_score)
            <= Val(rec.recommendations[i].match_score)

\* C30: no tool response contains data of a destination whose active flag is
\* false: every destination lookup of every tool, including the image lookup of
\* generate-travel-inspiration, matches active destinations only
C30_OnlyActiveDestinations ==
  (/\ tool.pc \in {"handled", "returned"}
   /\ Val(tool.outcome).status = "ok") =>
    /\ tool.name \in SingleDestinationTools =>
         \A n \in ReferencedDestinations : findDestination(destinations, n) # None
    /\ tool.name = "compare-destinations" =>
         \A i \in DOMAIN Val(tool.outcome).payload.destinations :
           findDestination(destinations,
                           Val(tool.outcome).payload.destinations[i]) # None
    /\ tool.name = "generate-travel-inspiration" =>
         \A i \in DOMAIN Val(tool.outcome).payload.images :
           \E k \in DOMAIN destinations :
             /\ destinations[k].is_active
             /\ hero_image_url(destinations[k])
                  = Some(Val(tool.outcome).payload.images[i])

=============================================================================
